---- MODULE Spec2Model ----
(***************************************************************************)
(* Forecast dashboard: the week pivot built by ForecastDataTable and the   *)
(* query layer (hooks/useForecastData on top of the shared QueryClient).   *)
(*                                                                         *)
(* PivotSpec  - the pivotData memo of ForecastDataTable and the component  *)
(*              state it reads (currentData, page, the clock).             *)
(* Spec       - the filter and page state of ForecastDataTable, its two    *)
(*              data observers, the prefetch of the next page and the      *)
(*              query cache with its fetches and retries.                  *)
(***************************************************************************)
EXTENDS Integers, Sequences, FiniteSets, TLC

VARIABLES
  currentData,   \* currentData?.data : NoData (undefined) or a sequence of records
  now,           \* the wall clock read by `new Date()`
  page,          \* useState(1)
  pivotData,     \* the memoised value of the pivotData useMemo
  prevRun,       \* page and value of the evaluation before, on the same records
  filters,       \* the filter useState values of ForecastDataTable
  clock,         \* Date.now() of the query client, in ticks
  cache,         \* the QueryCache: query hash -> query state
  observers,     \* the two data observers of ForecastDataTable
  prefetchArmed, \* the 500 ms prefetch timer of the prefetch effect is pending
  totalPagesSent, \* total_pages of the backend's responses (0: field absent)
  mounted,       \* the route /forecast/baseline shows ForecastDataTable
  gestures,      \* number of user gestures so far
  burst,         \* the run of consecutive search-term changes just made
  summaryQuery,  \* the query of useForecastSummary inside useForecastDataWithBrick
  debounce,      \* a component that calls useDebounce(value, delay)
  perf,          \* a component that calls usePerformanceMonitor(isLoading, componentName)
  verify,        \* a call of ForecastService.verifyEndpoints()
  unique,        \* the unique-values entries of the query cache and the last read
  header         \* a record's date, the week column it is counted in and the range printed there

pivotVars == <<currentData, now, pivotData, prevRun>>

hookVars == <<debounce, perf, verify, unique, header>>

queryVars == <<filters, clock, cache, observers, prefetchArmed, totalPagesSent, mounted,
          gestures, burst, summaryQuery>>

tableVars == <<currentData, now, page, pivotData, prevRun,
          filters, clock, cache, observers, prefetchArmed, totalPagesSent, mounted,
          gestures, burst, summaryQuery>>

vars == <<currentData, now, page, pivotData, prevRun,
          filters, clock, cache, observers, prefetchArmed, totalPagesSent, mounted,
          gestures, burst, summaryQuery, debounce, perf, verify, unique, header>>

----------------------------------------------------------------------------
(* Bounds of the model *)

MaxRecords == 3        \* longest response data list
TicksPerDay == 2       \* resolution of the time of day of a Date
MaxPage == 2           \* pages the user can move to

----------------------------------------------------------------------------
(* Values *)

\* currentData?.data: undefined while no response is there, else the list.
NoData == [defined |-> FALSE, data |-> <<>>]
Loaded(list) == [defined |-> TRUE, data |-> list]
Null == "null"                 \* a null mh_brick
InvalidDate == [year |-> 0, day |-> 0, tick |-> -1]   \* new Date(<unparsable>)
NaN == -1000000                \* the number NaN: equal to no week number

RefYear == 2025

\* A Date in local time: `day` whole days after 1 January of `year`,
\* `tick` the time of day in units of 1/TicksPerDay day.
MkDate(y, d, t) == [year |-> y, day |-> d, tick |-> t]

\* forecast_week values of the backend, already parsed by `new Date(...)`:
\* a day of week 1 and a day of week 4 of the reference year, and an
\* unparsable string.
RecordDates == { MkDate(RefYear, 2, 0), MkDate(RefYear, 20, 0), InvalidDate }

\* The moments at which the component renders: 4 January at midnight
\* (week 1, the window reaches back to week -3) and 31 January during the
\* day (week 5).
EarlyDate == MkDate(RefYear, 3, 0)
LateDate == MkDate(RefYear, 30, 1)
RefDates == { EarlyDate, LateDate }

\* (mh_brick, site_id) pairs of the backend's records.
Groups ==
  { [ mh_brick |-> Null,  site_id |-> "c" ],
    [ mh_brick |-> "a",   site_id |-> "b-c" ],
    [ mh_brick |-> "a-b", site_id |-> "c" ] }

Quantities == { 1, 2 }

ForecastRecord ==
  { [ mh_brick |-> g.mh_brick, site_id |-> g.site_id,
      forecast_week |-> d, predicted_qty |-> q ] :
      g \in Groups, d \in RecordDates, q \in Quantities }

RECURSIVE SeqsUpTo(_, _)
SeqsUpTo(S, n) ==
  IF n = 0 THEN { <<>> }
  ELSE LET shorter == SeqsUpTo(S, n - 1)
       IN  shorter \cup { Append(s, x) : s \in { t \in shorter : Len(t) = n - 1 }, x \in S }

DataLists == SeqsUpTo(ForecastRecord, MaxRecords)

----------------------------------------------------------------------------
(* Week arithmetic: getWeekNumber *)

CeilDiv(a, b) == IF a % b = 0 THEN a \div b ELSE (a \div b) + 1

\* Date.getDay() of 1 January of year y (0 = Sunday).
StartDayOf(y) ==
  (1 + 5 * ((y - 1) % 4) + 4 * ((y - 1) % 100) + 6 * ((y - 1) % 400)) % 7

\* Mutant of getWeekNumber: an unparsable date counts as 1 January.
getWeekNumber_InvalidAsEpoch(date) ==
  LET d == IF date = InvalidDate THEN [year |-> 1970, day |-> 0, tick |-> 0] ELSE date
  IN  CeilDiv(d.day * TicksPerDay + d.tick + (StartDayOf(d.year) + 1) * TicksPerDay,
              7 * TicksPerDay)

\* Math.ceil((pastDaysOfYear + startOfYear.getDay() + 1) / 7), in ticks;
\* every Date getter of an invalid Date is NaN and so is the result.
getWeekNumber(date) ==
  IF date = InvalidDate THEN NaN
  ELSE CeilDiv(date.day * TicksPerDay + date.tick
                 + (StartDayOf(date.year) + 1) * TicksPerDay,
               7 * TicksPerDay)

----------------------------------------------------------------------------
(* Date labels: getWeekDateRange *)

IsLeap(y) == (y % 4 = 0 /\ y % 100 # 0) \/ y % 400 = 0

MonthLengths(y) ==
  << 31, IF IsLeap(y) THEN 29 ELSE 28, 31, 30, 31, 30, 31, 31, 30, 31, 30, 31 >>

MonthNames ==
  << "Jan", "Feb", "Mar", "Apr", "May", "Jun",
     "Jul", "Aug", "Sep", "Oct", "Nov", "Dec" >>

\* new Date(y, m, n) normalised: the month (1..12) and day of month of the
\* n-th day counted from the first day of month m of year y.
RECURSIVE NormaliseDate(_, _, _)
NormaliseDate(y, m, n) ==
  IF n < 1 THEN
    IF m = 1 THEN NormaliseDate(y - 1, 12, n + 31)
    ELSE NormaliseDate(y, m - 1, n + MonthLengths(y)[m - 1])
  ELSE IF n > MonthLengths(y)[m] THEN
    IF m = 12 THEN NormaliseDate(y + 1, 1, n - 31)
    ELSE NormaliseDate(y, m + 1, n - MonthLengths(y)[m])
  ELSE [year |-> y, month |-> m, date |-> n]

\* formatDate: `${day} ${month}` with the en-US short month name.
formatDate(d) == ToString(d.date) \o " " \o MonthNames[d.month]

getWeekDateRange(weekNumber, year) ==
  LET startDay  == 1 + (weekNumber - 1) * 7
      endDay    == startDay + 6
      weekStart == NormaliseDate(year, 1, startDay)
      weekEnd   == NormaliseDate(year, 1, endDay)
  IN  formatDate(weekStart) \o "-" \o formatDate(weekEnd)

----------------------------------------------------------------------------
(* The pivot: the body of the pivotData useMemo *)

WindowBack == 4     \* for (let i = 4; i >= 0; i--)

\* Mutant of last5Weeks: the loop runs from 5 down to 1.
last5Weeks_Shifted(currentWeek) ==
  [ i \in 1..(WindowBack + 1) |-> currentWeek - (WindowBack + 2 - i) ]

\* last5Weeks: currentWeek-4, ..., currentWeek in push order.
last5Weeks(currentWeek) ==
  [ i \in 1..(WindowBack + 1) |-> currentWeek - (WindowBack + 1 - i) ]

SeqRange(s) == { s[i] : i \in 1..Len(s) }

\* Mutant of InWindow: the window test is dropped for well-dated records.
InWindow_NoTest(weekNumber, weeksSet) == weekNumber # NaN

\* last5WeeksSet.has(weekNumber): the set holds integers only.
InWindow(weekNumber, weeksSet) == weekNumber # NaN /\ weekNumber \in weeksSet

WeekLabel(weekNum) == "Week " \o ToString(weekNum)

\* record.mh_brick || 'Unknown'
BrickOrUnknown(brick) == IF brick = Null \/ brick = "" THEN "Unknown" ELSE brick

\* `${record.mh_brick || 'Unknown'}-${record.site_id}`
RowKey(record) == BrickOrUnknown(record.mh_brick) \o "-" \o record.site_id

\* Mutant of PageId: the page is left out of the row id.
PageId_NoPage(pg, key) == key

\* `${page}-${key}`
PageId(pg, key) == ToString(pg) \o "-" \o key

\* value || 0
OrZero(v) == IF v = 0 THEN 0 ELSE v

\* obj[k] = v on a plain object: the key is added when it is not there.
Put(obj, k, v) == [ x \in (DOMAIN obj) \cup {k} |-> IF x = k THEN v ELSE obj[x] ]

\* obj[k] || 0: a missing key reads undefined.
GetOrZero(obj, k) == IF k \in DOMAIN obj THEN OrZero(obj[k]) ELSE 0

\* rowsMap is a Map: a sequence of [key, row] entries in insertion order.
MapHas(m, key) == \E i \in 1..Len(m) : m[i].key = key

MapIndex(m, key) == CHOOSE i \in 1..Len(m) : m[i].key = key

InitialWeeks(weeksSeq) == [ l \in { WeekLabel(w) : w \in SeqRange(weeksSeq) } |-> 0 ]

\* One iteration of data.forEach(record => ...).
ForEachRecord(rowsMap, record, weeksSeq, pg) ==
  LET weekNumber == getWeekNumber(record.forecast_week)
      key        == RowKey(record)
      weekLabel  == WeekLabel(weekNumber)
      withRow    ==
        IF MapHas(rowsMap, key) THEN rowsMap
        ELSE Append(rowsMap,
               [ key |-> key,
                 row |-> [ mh_brick |-> BrickOrUnknown(record.mh_brick),
                           site_id  |-> record.site_id,
                           weeks    |-> InitialWeeks(weeksSeq),
                           pageId   |-> PageId(pg, key) ] ])
      i          == MapIndex(withRow, key)
  IN  IF ~InWindow(weekNumber, SeqRange(weeksSeq)) THEN rowsMap
      ELSE [ withRow EXCEPT ![i].row.weeks =
               Put(@, weekLabel, OrZero(record.predicted_qty)) ]

RECURSIVE ForEach(_, _, _, _, _)
ForEach(rowsMap, data, n, weeksSeq, pg) ==
  IF n > Len(data) THEN rowsMap
  ELSE ForEach(ForEachRecord(rowsMap, data[n], weeksSeq, pg),
               data, n + 1, weeksSeq, pg)

\* weeksWithDates
WeeksWithDates(weeksSeq, currentYear) ==
  [ i \in 1..Len(weeksSeq) |->
      [ week |-> WeekLabel(weeksSeq[i]),
        dateRange |-> getWeekDateRange(weeksSeq[i], currentYear) ] ]

\* Array.from(rowsMap.values()).map(row => ({...row, weeks: completeWeeks}))
CompleteRows(rowsMap, weeksSeq) ==
  [ i \in 1..Len(rowsMap) |->
      [ rowsMap[i].row EXCEPT !.weeks =
          [ l \in { WeekLabel(w) : w \in SeqRange(weeksSeq) } |->
              GetOrZero(rowsMap[i].row.weeks, l) ] ] ]

\* Mutant of PivotData: an empty list is treated like a missing response.
PivotData_EmptyIsMissing(sourceData, currentDate, pg) ==
  IF ~sourceData.defined \/ sourceData.data = <<>> THEN [ rows |-> <<>>, weeks |-> <<>> ]
  ELSE LET currentWeek == getWeekNumber(currentDate)
           weeksSeq    == last5Weeks(currentWeek)
           rowsMap     == ForEach(<<>>, sourceData.data, 1, weeksSeq, pg)
       IN  [ rows  |-> CompleteRows(rowsMap, weeksSeq),
             weeks |-> WeeksWithDates(weeksSeq, currentDate.year) ]

\* The memo body: currentData?.data, the clock, and `page` from the closure.
PivotData(sourceData, currentDate, pg) ==
  IF ~sourceData.defined THEN [ rows |-> <<>>, weeks |-> <<>> ]
  ELSE LET currentYear == currentDate.year
           currentWeek == getWeekNumber(currentDate)
           weeksSeq    == last5Weeks(currentWeek)
           rowsMap     == ForEach(<<>>, sourceData.data, 1, weeksSeq, pg)
       IN  [ rows  |-> CompleteRows(rowsMap, weeksSeq),
             weeks |-> WeeksWithDates(weeksSeq, currentYear) ]

----------------------------------------------------------------------------
(* Query layer: bounds and values *)

MaxTime == 1           \* the clock runs from 0 to MaxTime ticks
TickMinutes == 15      \* length of a clock tick
MaxNetCalls == 4       \* network calls of a run, those of retries still to come included
MaxGestures == 3       \* user gestures (inputs, clicks, navigation) in a run

TickMs == TickMinutes * 60 * 1000

StaleTime == 15 * 60 * 1000     \* staleTime of the forecast list queries
RetryCount == 1                 \* retry: 1
InitialLimit == 50              \* useState(50)
GcMinutes == 30                 \* gcTime: 30 * 60 * 1000

Undefined == "undefined"

SearchTerms == { "", "x" }
Brands == { "", "b" }

\* What the Min input of the quantity range leaves in quantityRangeFilter.min:
\* value ? parseInt(value) : undefined, for the inputs '', '0' and '5'.
QtyValues == { Undefined, "0", "5" }

\* The ways a request of apiClient fails: no response, a 5xx, a 4xx.
ErrorKinds == { "network", "server", "client" }

\* The message of the AxiosError of each.
AxiosMessage(kind) ==
  CASE kind = "network" -> "Network Error"
    [] kind = "server"  -> "Request failed with status code 500"
    [] kind = "client"  -> "Request failed with status code 404"

\* No error (null).
NoError == [ name |-> "", message |-> "" ]

\* What getForecastData throws when apiClient.get rejects: the response
\* interceptor passes the AxiosError on, the catch block replaces it by a
\* plain Error that keeps its message only.
getForecastDataError(kind) ==
  [ name |-> "Error",
    message |-> "Failed to fetch forecast data: " \o AxiosMessage(kind) ]

\* The summary query when ForecastDataTable has mounted on an empty cache:
\* its observer is enabled (no filters) and has started the fetch.
SummaryMounted ==
  [ status |-> "pending", fetchStatus |-> "fetching", failureCount |-> 0,
    hasData |-> FALSE, isRetryCancelled |-> FALSE ]

\* No search-term change has just been made.
NoBurst == [ changes |-> 0, requested |-> {} ]

NoFilters ==
  [ searchTerm |-> "", zoneFilter |-> "", stateFilter |-> "", cityFilter |-> "",
    storeFilter |-> "", formatFilter |-> "", brandFilter |-> "",
    dateStart |-> "", dateEnd |-> "", qtyMin |-> Undefined, qtyMax |-> Undefined ]

----------------------------------------------------------------------------
(* Request parameters and query keys *)

\* A plain object is the sequence of its [k, v] entries in insertion order;
\* v is the JSON text of the value.
Quote(str) == "\"" \o str \o "\""

Entry(name, jsonValue) == [ k |-> name, v |-> jsonValue ]

\* if (cond) obj[name] = value
SetIf(obj, cond, name, jsonValue) ==
  IF cond THEN Append(obj, Entry(name, jsonValue)) ELSE obj

HasKey(obj, name) == \E i \in 1..Len(obj) : obj[i].k = name

ValueOf(obj, name) == obj[CHOOSE i \in 1..Len(obj) : obj[i].k = name].v

\* Truthiness of a string state value and of a value given as JSON text.
Truthy(str) == str # ""

TruthyJson(obj, name) ==
  /\ HasKey(obj, name)
  /\ ValueOf(obj, name) \notin { Undefined, "0", "\"\"" }

\* hasActiveFilters
hasActiveFilters(f) ==
  \/ Truthy(f.searchTerm) \/ Truthy(f.zoneFilter) \/ Truthy(f.stateFilter)
  \/ Truthy(f.cityFilter) \/ Truthy(f.storeFilter) \/ Truthy(f.formatFilter)
  \/ Truthy(f.brandFilter) \/ Truthy(f.dateStart) \/ Truthy(f.dateEnd)
  \/ f.qtyMin \notin { Undefined, "0" } \/ f.qtyMax \notin { Undefined, "0" }

\* activeFilters
activeFilters(f, lim, pg) ==
  LET o0  == << Entry("limit", ToString(lim)),
                Entry("offset", ToString((pg - 1) * lim)) >>
      o1  == SetIf(o0, Truthy(f.searchTerm), "search_term", Quote(f.searchTerm))
      o2  == SetIf(o1, Truthy(f.zoneFilter), "zone", Quote(f.zoneFilter))
      o3  == SetIf(o2, Truthy(f.stateFilter), "state", Quote(f.stateFilter))
      o4  == SetIf(o3, Truthy(f.cityFilter), "city", Quote(f.cityFilter))
      o5  == SetIf(o4, Truthy(f.storeFilter), "site_id", Quote(f.storeFilter))
      o6  == SetIf(o5, Truthy(f.formatFilter), "format", Quote(f.formatFilter))
      o7  == SetIf(o6, Truthy(f.brandFilter), "brand", Quote(f.brandFilter))
      o8  == SetIf(o7, Truthy(f.dateStart), "start_date", Quote(f.dateStart))
      o9  == SetIf(o8, Truthy(f.dateEnd), "end_date", Quote(f.dateEnd))
      o10 == SetIf(o9, f.qtyMin # Undefined, "min_predicted_qty", f.qtyMin)
      o11 == SetIf(o10, f.qtyMax # Undefined, "max_predicted_qty", f.qtyMax)
  IN  o11

\* forecastParams of useSmartFilteredForecastData
forecastParams(fl) ==
  LET copy(o, name) == SetIf(o, TruthyJson(fl, name), name,
                             IF HasKey(fl, name) THEN ValueOf(fl, name) ELSE Undefined)
      copyDefined(o, name) == SetIf(o, HasKey(fl, name), name,
                             IF HasKey(fl, name) THEN ValueOf(fl, name) ELSE Undefined)
      p1  == copy(<<>>, "search_term")
      p2  == copy(p1, "zone")
      p3  == copy(p2, "state")
      p4  == copy(p3, "city")
      p5  == copy(p4, "site_id")
      p6  == copy(p5, "format")
      p7  == copy(p6, "mh_brick")
      p8  == copy(p7, "brand")
      p9  == copy(p8, "start_date")
      p10 == copy(p9, "end_date")
      p11 == copyDefined(p10, "min_predicted_qty")
      p12 == copyDefined(p11, "max_predicted_qty")
      p13 == copy(p12, "limit")
      p14 == copyDefined(p13, "offset")
  IN  p14

\* The params of the main query of useForecastDataWithBrick:
\* { mh_brick, ...dateRange, limit, offset } with offset = (page - 1) * limit;
\* dateRange is the useState({}) that is never set.
brickParams(mh_brick, lim, pg) ==
  << Entry("mh_brick", Quote(mh_brick)),
     Entry("limit", ToString(lim)),
     Entry("offset", ToString((pg - 1) * lim)) >>

\* The params getForecastDataByBrick hands to getForecastData:
\* mh_brick ? { mh_brick, ...additionalParams } : additionalParams.
getForecastDataByBrick(mh_brick, additionalParams) ==
  IF Truthy(mh_brick)
  THEN << Entry("mh_brick", Quote(mh_brick)) >> \o additionalParams
  ELSE additionalParams

\* The query parameters of the GET /forecast/ request of getForecastData:
\* { ...params, start_date: params.start_date ? params.start_date : undefined,
\* end_date: likewise }, of which axios sends every entry whose value is
\* neither undefined nor null -- an empty string is sent as `name=`.
getForecastData(params) ==
  SelectSeq(params,
            LAMBDA e : /\ e.v # Undefined
                       /\ ~(e.k \in { "start_date", "end_date" } /\ e.v = Quote("")))

\* Mutant of nextPageParams: the offset of the page on display.
nextPageParams_SameOffset(mh_brick, lim, pg) ==
  << Entry("mh_brick", Quote(mh_brick)),
     Entry("limit", ToString(lim)),
     Entry("offset", ToString((pg - 1) * lim)) >>

\* The params prefetchNextPage uses: offset = page * limit.
nextPageParams(mh_brick, lim, pg) ==
  << Entry("mh_brick", Quote(mh_brick)),
     Entry("limit", ToString(lim)),
     Entry("offset", ToString(pg * lim)) >>

\* Property names in the order in which the query key hash emits them.
SortedNames ==
  << "brand", "city", "end_date", "format", "limit", "max_predicted_qty",
     "mh_brick", "min_predicted_qty", "offset", "search_term", "site_id",
     "start_date", "state", "zone" >>

RECURSIVE StringifySorted(_, _, _)
StringifySorted(obj, n, first) ==
  IF n > Len(SortedNames) THEN ""
  ELSE IF HasKey(obj, SortedNames[n]) /\ ValueOf(obj, SortedNames[n]) # Undefined
       THEN (IF first THEN "" ELSE ",")
              \o Quote(SortedNames[n]) \o ":" \o ValueOf(obj, SortedNames[n])
              \o StringifySorted(obj, n + 1, FALSE)
       ELSE StringifySorted(obj, n + 1, first)

\* The hash of forecastKeys.list(params) = ['forecast', 'list', params]:
\* JSON with the object's keys sorted and undefined values dropped.
listKey(params) ==
  "[\"forecast\",\"list\",{" \o StringifySorted(params, 1, TRUE) \o "}]"

----------------------------------------------------------------------------
(* Query state *)

NoResponse ==
  [ defined |-> FALSE, key |-> "", at |-> 0, total_pages |-> 0, total_records |-> 0 ]

\* The backend holds MaxPage pages of records.
TotalRecords == MaxPage * InitialLimit

\* The ForecastResponse to the request of key k at clock t: total_records as
\* documented, and total_pages when the backend sends it (tp # 0).
Response(k, t, tp) ==
  [ defined |-> TRUE, key |-> k, at |-> t, total_pages |-> tp,
    total_records |-> TotalRecords ]

\* A query as the cache builds it: no data, nothing running. calls counts the
\* network calls its queryFn has made; joined tells that a fetch request was
\* answered with the promise of the fetch already running; isRetryCancelled
\* is the flag of its retryer; failureReason is the way the last failed
\* request failed, error the Error the query holds.
NewQuery ==
  [ status |-> "pending", fetchStatus |-> "idle", phase |-> "none",
    data |-> NoResponse, dataUpdatedAt |-> 0, failureCount |-> 0,
    error |-> NoError, failureReason |-> "none", calls |-> 0, joined |-> FALSE,
    isRetryCancelled |-> FALSE ]

\* QueryCache.build: the query of hash k, created when it is not there.
Build(c, k) ==
  IF k \in DOMAIN c THEN c
  ELSE [ x \in (DOMAIN c) \cup {k} |-> IF x = k THEN NewQuery ELSE c[x] ]

\* Mutant of IsStaleByTime: every query counts as stale (staleTime 0).
IsStaleByTime_Always(q, staleTime, t) == TRUE

\* Query.isStaleByTime(staleTime) at clock t.
IsStaleByTime(q, staleTime, t) ==
  \/ ~q.data.defined
  \/ (t - q.dataUpdatedAt) * TickMs >= staleTime

\* Mutant of Fetch: a fetch is started whether or not one is running.
Fetch_NoDedup(c, k) ==
  [ c EXCEPT ![k] =
      [ c[k] EXCEPT !.fetchStatus = "fetching", !.phase = "request",
                    !.failureCount = 0, !.failureReason = "none",
                    !.calls = c[k].calls + 1, !.joined = FALSE,
                    !.isRetryCancelled = FALSE ] ]

\* Query.fetch without cancelRefetch: a running fetch is joined, otherwise
\* the fetch state is entered and the queryFn makes its first network call.
Fetch(c, k) ==
  IF c[k].fetchStatus # "idle"
  THEN [ c EXCEPT ![k].joined = TRUE, ![k].isRetryCancelled = FALSE ]
  ELSE [ c EXCEPT ![k] =
           [ c[k] EXCEPT !.fetchStatus = "fetching", !.phase = "request",
                         !.failureCount = 0, !.failureReason = "none",
                         !.status = IF c[k].data.defined THEN c[k].status ELSE "pending",
                         !.error = IF c[k].data.defined THEN c[k].error ELSE NoError,
                         !.calls = c[k].calls + 1, !.joined = FALSE,
                    !.isRetryCancelled = FALSE ] ]

\* The network calls the running fetch of query q may still make: the call
\* of the retry it waits for, and those of the retries left to it.
CallsAhead(q) ==
  IF q.fetchStatus = "idle" \/ q.isRetryCancelled THEN 0
  ELSE (IF q.phase = "wait" THEN 1 ELSE 0) + (RetryCount - q.failureCount)

\* The network calls made so far together with those the running fetches
\* may still make.
CallsCommitted(c) ==
  LET RECURSIVE Sum(_)
      Sum(S) == IF S = {} THEN 0
                ELSE LET k == CHOOSE x \in S : TRUE
                     IN  c[k].calls + CallsAhead(c[k]) + Sum(S \ {k})
  IN  Sum(DOMAIN c)

TotalCalls(c) ==
  LET RECURSIVE Sum(_)
      Sum(S) == IF S = {} THEN 0
                ELSE LET k == CHOOSE x \in S : TRUE IN c[k].calls + Sum(S \ {k})
  IN  Sum(DOMAIN c)

----------------------------------------------------------------------------
(* The two data observers of ForecastDataTable *)

\* The filter states the user can reach, and the hashes of the query keys
\* of each of them (computed once).
FilterStates ==
  { [ NoFilters EXCEPT !.searchTerm = st, !.brandFilter = br, !.qtyMin = q ] :
      st \in SearchTerms, br \in Brands, q \in QtyValues }

FilteredKeys ==
  [ f \in FilterStates |->
      [ pg \in 1..MaxPage |-> listKey(forecastParams(activeFilters(f, InitialLimit, pg))) ] ]

ForecastKeys == [ pg \in 1..MaxPage |-> listKey(brickParams("", InitialLimit, pg)) ]

NextPageKeys == [ pg \in 1..MaxPage |-> listKey(nextPageParams("", InitialLimit, pg)) ]

\* queryKey of useSmartFilteredForecastData(activeFilters, hasActiveFilters)
filteredKey(f, lim, pg) ==
  IF f \in FilterStates /\ lim = InitialLimit /\ pg \in 1..MaxPage
  THEN FilteredKeys[f][pg]
  ELSE listKey(forecastParams(activeFilters(f, lim, pg)))

\* queryKey of useForecastData inside useForecastDataWithBrick('', dateRange, limit, page, ...)
forecastKey(lim, pg) ==
  IF lim = InitialLimit /\ pg \in 1..MaxPage
  THEN ForecastKeys[pg]
  ELSE listKey(brickParams("", lim, pg))

\* queryKey of prefetchNextPage
nextPageKey(lim, pg) ==
  IF lim = InitialLimit /\ pg \in 1..MaxPage
  THEN NextPageKeys[pg]
  ELSE listKey(nextPageParams("", lim, pg))

\* Query.removeObserver of the last observer of query k: its queryFn does not
\* read the abort signal, so the running request goes on and only the
\* retries of the retryer are cancelled.
RemoveObserver(c, k) ==
  IF c[k].fetchStatus = "fetching" THEN [ c EXCEPT ![k].isRetryCancelled = TRUE ] ELSE c

NewObserver(k, en) == [ key |-> k, enabled |-> en, lastDataKey |-> "" ]

\* QueryObserver.setOptions of a mounted observer o with a new key and
\* enabled flag at clock t: the query is built, and fetched when the observer
\* moved to it (or was disabled before), is enabled now, and the query is stale.
SetOptions(c, o, newKey, newEnabled, t) ==
  LET built == IF newKey = o.key THEN c ELSE RemoveObserver(Build(c, newKey), o.key)
  IN  IF /\ (newKey # o.key \/ ~o.enabled)
         /\ newEnabled
         /\ IsStaleByTime(built[newKey], StaleTime, t)
      THEN Fetch(built, newKey)
      ELSE built

\* QueryObserver.onSubscribe (refetchOnMount: false): a mounting enabled
\* observer fetches only when its query has no data.
OnSubscribe(c, k, en) ==
  LET built == Build(c, k)
  IN  IF en /\ ~built[k].data.defined THEN Fetch(built, k) ELSE built

\* #lastQueryWithDefinedData after the observer's result is updated.
LastDataKey(c, o, k) == IF c[k].data.defined THEN k ELSE o.lastDataKey

\* The data of an observer's result: the query's data, else (status pending)
\* placeholderData = the data of the last query that had data.
ResultData(c, o) ==
  IF c[o.key].data.defined THEN c[o.key].data
  ELSE IF c[o.key].status = "pending" /\ o.lastDataKey # ""
       THEN c[o.lastDataKey].data
       ELSE NoResponse

\* isLoading of an observer's result: isFetching && isPending, where a
\* result that shows placeholder data has status success.
IsLoading(c, o) ==
  /\ c[o.key].fetchStatus = "fetching"
  /\ c[o.key].status = "pending"
  /\ ~ResultData(c, o).defined

\* totalPages and hasNextPage of useForecastDataWithBrick
totalPages(c, obs) ==
  LET d == ResultData(c, obs.forecast)
  IN  IF d.defined /\ d.total_pages # 0 THEN d.total_pages ELSE 1

hasNextPage(c, obs, pg) == pg < totalPages(c, obs)

hasPreviousPage(pg) == pg > 1

\* currentData and currentError of ForecastDataTable
selectedData(c, obs, f) ==
  IF hasActiveFilters(f) THEN ResultData(c, obs.filtered) ELSE ResultData(c, obs.forecast)

currentError(c, obs, f) ==
  IF hasActiveFilters(f) THEN c[obs.filtered.key].error ELSE c[obs.forecast.key].error

\* Mutant of isLoading: the loading flag of the unfiltered query, always.
isLoading_OfForecast(c, obs, f) == IsLoading(c, obs.forecast)

\* isLoading of ForecastDataTable
isLoading(c, obs, f) ==
  IF hasActiveFilters(f) THEN IsLoading(c, obs.filtered) ELSE IsLoading(c, obs.forecast)

\* A render of ForecastDataTable with filter state f and page pg at clock t:
\* both hooks pass their options to their observers; the cache afterwards.
Rendered(f, lim, pg, c, obs, t) ==
  LET c1 == SetOptions(c, obs.filtered, filteredKey(f, lim, pg), hasActiveFilters(f), t)
  IN  SetOptions(c1, obs.forecast, forecastKey(lim, pg), ~hasActiveFilters(f), t)

\* The observers after that render, c being the cache after it.
ObserversAfter(f, lim, pg, c, obs) ==
  [ filtered |-> [ key |-> filteredKey(f, lim, pg),
                   enabled |-> hasActiveFilters(f),
                   lastDataKey |-> LastDataKey(c, obs.filtered, filteredKey(f, lim, pg)) ],
    forecast |-> [ key |-> forecastKey(lim, pg),
                   enabled |-> ~hasActiveFilters(f),
                   lastDataKey |-> LastDataKey(c, obs.forecast, forecastKey(lim, pg)) ] ]

\* The dependencies of the prefetch effect (with those of prefetchNextPage).
PrefetchDeps(f, pg, c, obs) ==
  << pg, hasNextPage(c, obs, pg), isLoading(c, obs, f), ~hasActiveFilters(f) >>

\* The component re-renders with (f, pg) on the cache c: observers, cache
\* and the prefetch effect follow.
Rerender(f, pg, c) ==
  /\ cache' = Rendered(f, InitialLimit, pg, c, observers, clock)
  /\ CallsCommitted(cache') <= MaxNetCalls
  /\ observers' = ObserversAfter(f, InitialLimit, pg, cache', observers)
  /\ prefetchArmed' =
       IF PrefetchDeps(f, pg, cache', observers')
            = PrefetchDeps(filters, page, cache, observers)
       THEN prefetchArmed
       ELSE hasNextPage(cache', observers', pg) /\ ~isLoading(cache', observers', f)

EmptyCache == [ k \in {} |-> NewQuery ]

\* The cache and observers after ForecastDataTable has mounted.
MountedCache ==
  OnSubscribe(
    OnSubscribe(EmptyCache, filteredKey(NoFilters, InitialLimit, 1), FALSE),
    forecastKey(InitialLimit, 1), TRUE)

MountedObservers ==
  [ filtered |-> NewObserver(filteredKey(NoFilters, InitialLimit, 1), FALSE),
    forecast |-> NewObserver(forecastKey(InitialLimit, 1), TRUE) ]

\* The query layer as the pivot specification holds it.
QueryIdle ==
  /\ filters = NoFilters
  /\ clock = 0
  /\ cache = MountedCache
  /\ observers = MountedObservers
  /\ prefetchArmed = FALSE
  /\ totalPagesSent = 0
  /\ mounted = TRUE
  /\ gestures = 0
  /\ burst = NoBurst
  /\ summaryQuery = SummaryMounted

QueryInit ==
  /\ filters = NoFilters
  /\ clock = 0
  /\ cache = MountedCache
  /\ observers = MountedObservers
  /\ prefetchArmed = FALSE
  /\ totalPagesSent \in { 0, MaxPage }
  /\ mounted = TRUE
  /\ gestures = 0
  /\ burst = NoBurst
  /\ summaryQuery = SummaryMounted

----------------------------------------------------------------------------
(* useDebounce(value, delay) *)

MaxDelay == 2          \* the delays passed to useDebounce, in ticks of its timer

DebounceValues == { "", "x", "xy", "xyz" }

\* setTimeout(() => setDebouncedValue(value), delay): the timer with the value
\* its closure holds and the ticks left until it fires.
Handler(value, delay) == [ value |-> value, left |-> delay ]

\* Mutant of clearTimeout: the timer stays pending.
clearTimeout_Keeps(timers) == timers

\* The cleanup of the effect: clearTimeout(handler).
clearTimeout(timers) == {}

\* The component has mounted with useDebounce('', delay): useState(value) and
\* the first run of the effect. heldFor is the time for which the input has
\* had its present value and delay.
DebounceMounted(delay) ==
  [ value |-> "", delay |-> delay, debouncedValue |-> "",
    timers |-> { Handler("", delay) }, mounted |-> TRUE, heldFor |-> 0 ]

DebounceIdle == debounce = DebounceMounted(MaxDelay)

\* A render with another value or another delay: the dependencies
\* [value, delay] have changed, so the cleanup runs and the effect sets a
\* new timer.
DebounceInput ==
  /\ debounce.mounted
  /\ \E v \in DebounceValues, d \in 1..MaxDelay :
       /\ << v, d >> # << debounce.value, debounce.delay >>
       /\ debounce' = [ debounce EXCEPT
                          !.value = v, !.delay = d, !.heldFor = 0,
                          !.timers = clearTimeout(debounce.timers) \cup { Handler(v, d) } ]
  /\ UNCHANGED << perf, verify, unique, header, tableVars >>

\* A timer that is due fires: setDebouncedValue(value of its closure).
DebounceTimerFires ==
  /\ \E h \in debounce.timers :
       /\ h.left = 0
       /\ debounce' = [ debounce EXCEPT !.debouncedValue = h.value,
                                        !.timers = debounce.timers \ { h } ]
  /\ UNCHANGED << perf, verify, unique, header, tableVars >>

\* Time passes by one tick, no timer being overdue.
DebounceTick ==
  /\ \A h \in debounce.timers : h.left > 0
  /\ debounce' = [ debounce EXCEPT
                     !.timers = { [ h EXCEPT !.left = h.left - 1 ] : h \in debounce.timers },
                     !.heldFor = IF debounce.heldFor < MaxDelay
                                 THEN debounce.heldFor + 1 ELSE MaxDelay ]
  /\ UNCHANGED << perf, verify, unique, header, tableVars >>

\* The component unmounts: the cleanup of the effect runs.
DebounceUnmount ==
  /\ debounce.mounted
  /\ debounce' = [ debounce EXCEPT !.mounted = FALSE,
                                   !.timers = clearTimeout(debounce.timers) ]
  /\ UNCHANGED << perf, verify, unique, header, tableVars >>

DebounceNext ==
  \/ DebounceInput
  \/ DebounceTimerFires
  \/ DebounceTick
  \/ DebounceUnmount

----------------------------------------------------------------------------
(* usePerformanceMonitor(isLoading, componentName) *)

MaxLoads == 11         \* loading cycles of a run
KeepLoads == 10        \* loadTimes.current.length > 10

Durations == { 1, 2 }  \* lengths of a loading period on the performance clock

ComponentNames == { "Component", "ForecastDataTable" }

NoStart == -1          \* loadStartTime.current === null

\* Mutant of KeepLast: nothing is shifted out.
KeepLast_All(loadTimes) == loadTimes

\* if (loadTimes.current.length > 10) loadTimes.current.shift()
KeepLast(loadTimes) == IF Len(loadTimes) > KeepLoads THEN Tail(loadTimes) ELSE loadTimes

\* The effect of usePerformanceMonitor, run at performance.now() = t on the
\* hook state p after a render with p.isLoading.
MonitorEffect(p, t) ==
  IF p.isLoading /\ p.loadStartTime = NoStart
  THEN [ p EXCEPT !.loadStartTime = t ]
  ELSE IF ~p.isLoading /\ p.loadStartTime # NoStart
       THEN [ p EXCEPT !.loadTimes = KeepLast(Append(p.loadTimes, t - p.loadStartTime)),
                       !.loadCount = p.loadCount + 1,
                       !.lastLoadTime = t - p.loadStartTime,
                       !.loadStartTime = NoStart ]
       ELSE p

\* The hook after its first render with isLoading false. completed lists the
\* lengths of the loading periods that have ended, performanceNow is the
\* performance clock.
PerfMounted ==
  [ isLoading |-> FALSE, componentName |-> "Component", loadStartTime |-> NoStart,
    loadTimes |-> << >>, loadCount |-> 0, lastLoadTime |-> 0,
    performanceNow |-> 0, completed |-> << >> ]

PerfIdle == perf = PerfMounted

\* isLoading rises: the component renders and the effect runs.
PerfLoadingStarts ==
  /\ ~perf.isLoading
  /\ Len(perf.completed) < MaxLoads
  /\ perf' = MonitorEffect([ perf EXCEPT !.isLoading = TRUE ], perf.performanceNow)
  /\ UNCHANGED << debounce, verify, unique, header, tableVars >>

\* isLoading falls after a loading period of length d.
PerfLoadingEnds ==
  /\ perf.isLoading
  /\ \E d \in Durations :
       perf' = MonitorEffect([ perf EXCEPT !.isLoading = FALSE,
                                           !.performanceNow = perf.performanceNow + d,
                                           !.completed = Append(perf.completed, d) ],
                             perf.performanceNow + d)
  /\ UNCHANGED << debounce, verify, unique, header, tableVars >>

\* The caller passes another componentName: the effect runs again.
PerfRename ==
  /\ \E n \in ComponentNames :
       /\ n # perf.componentName
       /\ perf' = MonitorEffect([ perf EXCEPT !.componentName = n ], perf.performanceNow)
  /\ UNCHANGED << debounce, verify, unique, header, tableVars >>

PerfNext ==
  \/ PerfLoadingStarts
  \/ PerfLoadingEnds
  \/ PerfRename

----------------------------------------------------------------------------
(* ForecastService.verifyEndpoints() *)

endpoints ==
  << "/forecast/", "/forecast/summary", "/forecast/unique-values/brand",
     "/forecast/unique-values/site_id", "/forecast/metadata", "/forecast/health" >>

\* What apiClient.get(endpoint, { timeout: 5000 }) ends with: it resolves
\* with a response of status 200 or of another 2xx status (here 204), or it
\* rejects (any other status, no response, the timeout).
ProbeOutcomes == { "200", "204", "rejected" }

\* The call has started: results as initialised, the loop at its first endpoint.
VerifyCalled ==
  [ next |-> 1, available |-> << >>, unavailable |-> << >>,
    backendConnected |-> FALSE, returned |-> FALSE ]

VerifyIdle == verify = VerifyCalled

\* One iteration of the for loop: the awaited probe of endpoints[next] ends.
VerifyProbe ==
  /\ verify.next <= Len(endpoints)
  /\ \E outcome \in ProbeOutcomes :
       verify' =
         CASE outcome = "200" ->
                [ verify EXCEPT !.next = verify.next + 1,
                                !.available = Append(verify.available, endpoints[verify.next]),
                                !.backendConnected = TRUE ]
           [] outcome = "204" ->
                [ verify EXCEPT !.next = verify.next + 1 ]
           [] outcome = "rejected" ->
                [ verify EXCEPT !.next = verify.next + 1,
                                !.unavailable = Append(verify.unavailable,
                                                       endpoints[verify.next]) ]
  /\ UNCHANGED << debounce, perf, unique, header, tableVars >>

\* return results
VerifyReturns ==
  /\ verify.next > Len(endpoints)
  /\ ~verify.returned
  /\ verify' = [ verify EXCEPT !.returned = TRUE ]
  /\ UNCHANGED << debounce, perf, unique, header, tableVars >>

VerifyNext ==
  \/ VerifyProbe
  \/ VerifyReturns

----------------------------------------------------------------------------
(* The unique-values hooks and their cache entries *)

Columns == { "mh_brick", "brand", "site_id", "zone" }

\* forecastKeys.uniqueValues(column)
uniqueValues(column) == "[\"forecast\",\"unique-values\"," \o Quote(column) \o "]"

\* The hooks on unique values: the column of their query key and the shape
\* of what their queryFn returns (getUniqueValues returns the
\* UniqueValuesResponse, getUniqueBricks/Brands/Sites its unique_values).
UniqueHooks ==
  { [ hook |-> "useUniqueValues", column |-> c, shape |-> "UniqueValuesResponse" ] :
      c \in Columns }
  \cup { [ hook |-> "useUniqueBricks", column |-> "mh_brick", shape |-> "string[]" ],
         [ hook |-> "useUniqueBrands", column |-> "brand", shape |-> "string[]" ],
         [ hook |-> "useUniqueSites", column |-> "site_id", shape |-> "string[]" ] }

NoRead == [ hook |-> "", column |-> "", shape |-> "" ]

\* No unique-values query is in the cache and no hook has read one.
UniqueEmpty ==
  [ cache |-> [ k \in { uniqueValues(c) : c \in Columns } |-> "none" ],
    lastRead |-> NoRead ]

UniqueIdle == unique = UniqueEmpty

\* A component with hook h mounts and its fetch, if one is made, resolves:
\* with no data under its key the queryFn of h runs and its result is stored
\* (refetchOnMount: false; staleTime 1 hour), otherwise h is given the data
\* the entry holds.
UniqueHookReads ==
  /\ \E h \in UniqueHooks :
       LET k == uniqueValues(h.column)
           stored == IF unique.cache[k] = "none" THEN h.shape ELSE unique.cache[k]
       IN  unique' = [ cache |-> [ unique.cache EXCEPT ![k] = stored ],
                       lastRead |-> [ hook |-> h.hook, column |-> h.column,
                                      shape |-> stored ] ]
  /\ UNCHANGED << debounce, perf, verify, header, tableVars >>

\* An entry without observers is collected (gcTime 2 hours).
UniqueCollected ==
  /\ \E k \in DOMAIN unique.cache :
       /\ unique.cache[k] # "none"
       /\ unique' = [ cache |-> [ unique.cache EXCEPT ![k] = "none" ],
                      lastRead |-> NoRead ]
  /\ UNCHANGED << debounce, perf, verify, header, tableVars >>

UniqueNext ==
  \/ UniqueHookReads
  \/ UniqueCollected

----------------------------------------------------------------------------
(* Week columns: the column a record is counted in and the range printed   *)
(* under it                                                                *)

YearsBefore == 2       \* the years RefYear - YearsBefore .. RefYear + YearsAfter
YearsAfter == 5        \* start on every weekday, Sunday to Saturday

HeaderYears == (RefYear - YearsBefore)..(RefYear + YearsAfter)

DaysIn(y) == IF IsLeap(y) THEN 366 ELSE 365

\* new Date(record.forecast_week): every moment of every day of the year.
HeaderDates ==
  { MkDate(y, d, t) : y \in HeaderYears,
                      d \in 0..365, t \in 0..(TicksPerDay - 1) }
  \ { MkDate(y, 365, t) : y \in { yy \in HeaderYears : ~IsLeap(yy) },
                          t \in 0..(TicksPerDay - 1) }

NoHeader == [ date |-> InvalidDate, week |-> "", dateRange |-> "" ]

HeaderIdle == header = NoHeader

\* A record dated `date` has arrived and is not yet pivoted.
HeaderPending(date) == [ date |-> date, week |-> "", dateRange |-> "" ]

\* The record is counted in column `Week ${weekNumber}` and the header of
\* that column prints getWeekDateRange(weekNumber, currentYear); the
\* component renders in the year of the record.
HeaderRendered ==
  /\ header # NoHeader
  /\ header.week = ""
  /\ LET weekNumber  == getWeekNumber(header.date)
         currentYear == header.date.year
     IN  header' = [ header EXCEPT
                       !.week      = WeekLabel(weekNumber),
                       !.dateRange = getWeekDateRange(weekNumber, currentYear) ]
  /\ UNCHANGED << debounce, perf, verify, unique, tableVars >>

HeaderNext == HeaderRendered

HooksIdle == DebounceIdle /\ PerfIdle /\ VerifyIdle /\ UniqueIdle /\ HeaderIdle

----------------------------------------------------------------------------
(* PivotSpec: ForecastDataTable renders; the memo is re-evaluated whenever *)
(* one of its dependencies [currentData, page] changes.                    *)

NoRun == [ ran |-> FALSE, page |-> 0, out |-> [ rows |-> <<>>, weeks |-> <<>> ] ]

\* A render with the component state (data, pg) at clock `now`: the memo body
\* runs; prevRun keeps the evaluation it replaces when that one read the
\* same records.
Render(data, pg) ==
  /\ pivotData' = PivotData(data, now, pg)
  /\ prevRun' = IF data = currentData
                THEN [ ran |-> TRUE, page |-> page, out |-> pivotData ]
                ELSE NoRun

PivotInit ==
  /\ currentData = NoData
  /\ now \in RefDates
  /\ page = 1
  /\ pivotData = PivotData(NoData, now, 1)
  /\ prevRun = NoRun
  /\ QueryIdle
  /\ HooksIdle

\* The displayed query delivers its first response.
MemoOnResponse ==
  /\ ~currentData.defined
  /\ \E list \in DataLists :
       /\ currentData' = Loaded(list)
       /\ Render(currentData', page)
  /\ UNCHANGED << now, page, queryVars, hookVars >>

\* handlePageChange: setPage(newPage); the data of the page left stays
\* displayed until the new page's response is there (placeholderData).
MemoOnPageChange ==
  /\ \E newPage \in 1..MaxPage :
       /\ newPage # page
       /\ page' = newPage
       /\ Render(currentData, page')
  /\ UNCHANGED << currentData, now, queryVars, hookVars >>

PivotNext ==
  \/ MemoOnResponse
  \/ MemoOnPageChange

PivotSpec == PivotInit /\ [][PivotNext]_vars

----------------------------------------------------------------------------
(* Spec: user actions, the prefetch timer, the network and the clock *)

\* Query.fetch of the summary query: a running fetch is joined.
SummaryFetch(q) ==
  IF q.fetchStatus # "idle" THEN [ q EXCEPT !.isRetryCancelled = FALSE ]
  ELSE [ q EXCEPT !.fetchStatus = "fetching", !.failureCount = 0,
                  !.status = IF q.hasData THEN q.status ELSE "pending",
                  !.isRetryCancelled = FALSE ]

\* setOptions of the summary observer in a render: it fetches when it was
\* disabled, is enabled now and its query is stale. staleTime is 20 minutes,
\* more than the clock covers: the query is stale only when it has no data.
SummarySetOptions(q, prevEnabled, enabled) ==
  IF ~prevEnabled /\ enabled /\ ~q.hasData THEN SummaryFetch(q) ELSE q

\* The render after a change of the filter state.
SummaryRerender ==
  summaryQuery' = SummarySetOptions(summaryQuery, ~hasActiveFilters(filters),
                                    ~hasActiveFilters(filters'))

\* hasError of useForecastDataWithBrick, as far as the forecast query and
\* the summary query go.
hasError(c, obs, sq) ==
  \/ c[obs.forecast.key].status = "error"
  \/ sq.status = "error"

\* The filter bar and the table are rendered only past the two early
\* returns of ForecastDataTable (loading spinner, error panel).
\* One more user gesture.
Gesture == gestures < MaxGestures /\ gestures' = gestures + 1

ControlsShown ==
  /\ mounted
  /\ ~isLoading(cache, observers, filters)
  /\ ~hasError(cache, observers, summaryQuery)

\* Any step other than a search-term change ends the run of changes.
EndBurst == burst' = NoBurst

\* onChange of the search input: setSearchTerm(e.target.value). burst
\* records the change and, when the render after it made a network call,
\* the value the call was made for.
SetSearchTerm ==
  /\ ControlsShown
  /\ \E v \in SearchTerms :
       /\ v # filters.searchTerm
       /\ filters' = [ filters EXCEPT !.searchTerm = v ]
       /\ page' = page
       /\ Rerender(filters', page', cache)
       /\ burst' = [ changes |-> burst.changes + 1,
                     requested |-> burst.requested \cup
                        (IF TotalCalls(cache') > TotalCalls(cache) THEN {v} ELSE {}) ]
  /\ Gesture
  /\ SummaryRerender
  /\ UNCHANGED << clock, totalPagesSent, mounted, pivotVars, hookVars >>

\* onChange of the brand select: setBrandFilter(e.target.value); setPage(1).
SetBrandFilter ==
  /\ ControlsShown
  /\ \E v \in Brands :
       /\ v # filters.brandFilter
       /\ filters' = [ filters EXCEPT !.brandFilter = v ]
       /\ page' = 1
       /\ Rerender(filters', page', cache)
  /\ Gesture
  /\ SummaryRerender
  /\ EndBurst
  /\ UNCHANGED << clock, totalPagesSent, mounted, pivotVars, hookVars >>

\* onValueChange of the Min input of the quantity range:
\* setQuantityRangeFilter(prev => ({ ...prev, min: ... })).
SetQuantityMin ==
  /\ ControlsShown
  /\ \E v \in QtyValues :
       /\ v # filters.qtyMin
       /\ filters' = [ filters EXCEPT !.qtyMin = v ]
       /\ page' = page
       /\ Rerender(filters', page', cache)
  /\ Gesture
  /\ SummaryRerender
  /\ EndBurst
  /\ UNCHANGED << clock, totalPagesSent, mounted, pivotVars, hookVars >>

\* onClick of Clear All, shown while hasActiveFilters.
ClearAll ==
  /\ ControlsShown
  /\ hasActiveFilters(filters)
  /\ filters' = NoFilters
  /\ page' = 1
  /\ Rerender(filters', page', cache)
  /\ Gesture
  /\ SummaryRerender
  /\ EndBurst
  /\ UNCHANGED << clock, totalPagesSent, mounted, pivotVars, hookVars >>

\* handlePageChange: setPage(newPage).
HandlePageChange ==
  /\ ControlsShown
  /\ \E newPage \in 1..MaxPage :
       /\ newPage # page
       /\ page' = newPage
       /\ filters' = filters
       /\ Rerender(filters', page', cache)
  /\ Gesture
  /\ SummaryRerender
  /\ EndBurst
  /\ UNCHANGED << clock, totalPagesSent, mounted, pivotVars, hookVars >>

\* Mutant of PrefetchQuery: the fetch bypasses the running one.
PrefetchQuery_NoDedup(c, k, t) ==
  LET built == Build(c, k)
  IN  IF IsStaleByTime(built[k], StaleTime, t) THEN Fetch_NoDedup(built, k) ELSE built

\* queryClient.prefetchQuery({ queryKey, queryFn, staleTime: 15 min }).
PrefetchQuery(c, k, t) ==
  LET built == Build(c, k)
  IN  IF IsStaleByTime(built[k], StaleTime, t) THEN Fetch(built, k) ELSE built

\* The 500 ms timer of the prefetch effect fires: prefetchNextPage().
PrefetchTimerFires ==
  /\ prefetchArmed
  /\ LET c == IF hasNextPage(cache, observers, page) /\ ~hasActiveFilters(filters)
              THEN PrefetchQuery(cache, nextPageKey(InitialLimit, page), clock)
              ELSE cache
     IN  /\ CallsCommitted(c) <= MaxNetCalls
         /\ cache' = c
  /\ prefetchArmed' = FALSE
  /\ UNCHANGED summaryQuery
  /\ EndBurst
  /\ UNCHANGED << filters, page, observers, clock, totalPagesSent, mounted, gestures,
                  pivotVars, hookVars >>

Fetching == { k \in DOMAIN cache : cache[k].phase = "request" }

\* The cache became c by a query's state change: the mounted component
\* re-renders; with no component there is nothing to notify.
Notify(c) ==
  IF mounted THEN Rerender(filters, page, c)
  ELSE cache' = c /\ UNCHANGED << observers, prefetchArmed >>

\* Mutant of SetData: the response is stored in the query on display.
SetData_InDisplayedQuery(c, k, response, t) ==
  LET shown == IF hasActiveFilters(filters) THEN observers.filtered.key
               ELSE observers.forecast.key
  IN  [ c EXCEPT ![shown] =
          [ c[shown] EXCEPT !.status = "success", !.fetchStatus = "idle",
                            !.phase = "none", !.data = response,
                            !.dataUpdatedAt = t, !.failureCount = 0,
                            !.failureReason = "none", !.error = NoError ],
        ![k].fetchStatus = "idle",
        ![k].phase = "none" ]

\* The promise of the queryFn of query k resolves: the retryer of that query
\* hands the response to that query (Query.setData of the success action).
SetData(c, k, response, t) ==
  [ c EXCEPT ![k] =
      [ c[k] EXCEPT !.status = "success", !.fetchStatus = "idle",
                    !.phase = "none", !.data = response,
                    !.dataUpdatedAt = t, !.failureCount = 0,
                    !.failureReason = "none", !.error = NoError ] ]

\* The network call of query k is answered: the query takes the response.
FetchSucceeds ==
  /\ \E k \in Fetching :
       Notify(SetData(cache, k, Response(k, clock, totalPagesSent), clock))
  /\ UNCHANGED summaryQuery
  /\ EndBurst
  /\ UNCHANGED << filters, page, clock, totalPagesSent, mounted, gestures, pivotVars, hookVars >>

\* Mutant of ShouldRetry: the retryer retries without end (retry: true).
ShouldRetry_Always(failureCount, kind) == TRUE

\* retry: 1 -- the retryer retries while failureCount < retry, whatever the error.
ShouldRetry(failureCount, kind) == failureCount < RetryCount

\* The network call of query k fails (no response, 5xx or 4xx): the retryer
\* waits retryDelay for another attempt or gives the query its error.
FetchFails ==
  /\ \E k \in Fetching : \E kind \in ErrorKinds :
       Notify(
         [ cache EXCEPT ![k] =
             IF ~cache[k].isRetryCancelled /\ ShouldRetry(cache[k].failureCount, kind)
             THEN [ cache[k] EXCEPT !.phase = "wait",
                                    !.failureCount = cache[k].failureCount + 1,
                                    !.failureReason = kind ]
             ELSE [ cache[k] EXCEPT !.status = "error", !.fetchStatus = "idle",
                                    !.phase = "none",
                                    !.failureCount = cache[k].failureCount + 1,
                                    !.failureReason = kind,
                                    !.error = getForecastDataError(kind) ] ])
  /\ UNCHANGED summaryQuery
  /\ EndBurst
  /\ UNCHANGED << filters, page, clock, totalPagesSent, mounted, gestures, pivotVars, hookVars >>

\* retryDelay (2000 ms) is over: the queryFn makes its next network call,
\* unless the retries were cancelled meanwhile: then the query takes the error.
RetryFires ==
  /\ \E k \in DOMAIN cache :
       /\ cache[k].phase = "wait"
       /\ Notify(
            [ cache EXCEPT ![k] =
                IF cache[k].isRetryCancelled
                THEN [ cache[k] EXCEPT !.status = "error", !.fetchStatus = "idle",
                                       !.phase = "none",
                                       !.error =
                                         getForecastDataError(cache[k].failureReason) ]
                ELSE [ cache[k] EXCEPT !.phase = "request",
                                       !.calls = cache[k].calls + 1 ] ])
  /\ UNCHANGED summaryQuery
  /\ EndBurst
  /\ UNCHANGED << filters, page, clock, totalPagesSent, mounted, gestures, pivotVars, hookVars >>

\* observer.refetch() (cancelRefetch: true) of query k: a running fetch of a
\* query that has data is cancelled silently and a new one started; a running
\* fetch of a query without data is joined; an idle query is fetched.
Refetch(c, k) ==
  IF c[k].fetchStatus # "idle" /\ c[k].data.defined
  THEN [ c EXCEPT ![k] =
           [ c[k] EXCEPT !.fetchStatus = "fetching", !.phase = "request",
                         !.failureCount = 0, !.failureReason = "none",
                         !.calls = c[k].calls + 1, !.joined = FALSE,
                         !.isRetryCancelled = FALSE ] ]
  ELSE Fetch(c, k)

\* The error panel, with its Retry button, is what ForecastDataTable returns.
RetryShown ==
  /\ mounted
  /\ ~isLoading(cache, observers, filters)
  /\ hasError(cache, observers, summaryQuery)

\* onClick of Retry: refetchAll(), that is forecastQuery.refetch() as far as
\* the forecast list goes.
RetryClick ==
  /\ RetryShown
  /\ Rerender(filters, page, Refetch(cache, observers.forecast.key))
  /\ Gesture
  /\ summaryQuery' = SummaryFetch(summaryQuery)
  /\ EndBurst
  /\ UNCHANGED << filters, page, clock, totalPagesSent, mounted, pivotVars, hookVars >>

\* The user leaves /forecast/baseline: ForecastDataTable unmounts, its
\* observers unsubscribe, its effect cleanup clears the prefetch timer and
\* its useState values are gone.
Unmount ==
  /\ mounted
  /\ mounted' = FALSE
  /\ cache' = RemoveObserver(RemoveObserver(cache, observers.filtered.key),
                             observers.forecast.key)
  /\ observers' = MountedObservers
  /\ filters' = NoFilters
  /\ page' = 1
  /\ prefetchArmed' = FALSE
  /\ Gesture
  /\ summaryQuery' = [ summaryQuery EXCEPT !.isRetryCancelled = (summaryQuery.fetchStatus # "idle") ]
  /\ EndBurst
  /\ UNCHANGED << clock, totalPagesSent, pivotVars, hookVars >>

\* The user opens /forecast/baseline again: ForecastDataTable mounts with its
\* initial state and its two observers subscribe (refetchOnMount: false).
Mount ==
  /\ ~mounted
  /\ mounted' = TRUE
  /\ cache' = OnSubscribe(
                OnSubscribe(cache, filteredKey(NoFilters, InitialLimit, 1), FALSE),
                forecastKey(InitialLimit, 1), TRUE)
  /\ CallsCommitted(cache') <= MaxNetCalls
  /\ observers' = ObserversAfter(NoFilters, InitialLimit, 1, cache', MountedObservers)
  /\ prefetchArmed' = (hasNextPage(cache', observers', 1)
                         /\ ~isLoading(cache', observers', NoFilters))
  /\ Gesture
  /\ summaryQuery' = IF summaryQuery.hasData THEN summaryQuery ELSE SummaryFetch(summaryQuery)
  /\ EndBurst
  /\ UNCHANGED << filters, page, clock, totalPagesSent, pivotVars, hookVars >>

\* The request of the summary query is answered.
SummarySucceeds ==
  /\ summaryQuery.fetchStatus = "fetching"
  /\ summaryQuery' = [ summaryQuery EXCEPT !.status = "success", !.fetchStatus = "idle",
                                           !.failureCount = 0, !.hasData = TRUE ]
  /\ EndBurst
  /\ UNCHANGED << filters, page, cache, observers, prefetchArmed, clock, totalPagesSent,
                  mounted, gestures, pivotVars, hookVars >>

\* The request of the summary query fails: retry: 1 lets the retryer make
\* one more request, after which (or with its retries cancelled) the query
\* takes the error.
SummaryFails ==
  /\ summaryQuery.fetchStatus = "fetching"
  /\ summaryQuery' =
       IF ~summaryQuery.isRetryCancelled /\ summaryQuery.failureCount < RetryCount
       THEN [ summaryQuery EXCEPT !.failureCount = summaryQuery.failureCount + 1 ]
       ELSE [ summaryQuery EXCEPT !.status = "error", !.fetchStatus = "idle",
                                  !.failureCount = summaryQuery.failureCount + 1 ]
  /\ EndBurst
  /\ UNCHANGED << filters, page, cache, observers, prefetchArmed, clock, totalPagesSent,
                  mounted, gestures, pivotVars, hookVars >>

\* A tick of the clock.
Tick ==
  /\ clock < MaxTime
  /\ (clock + 1) * TickMinutes < GcMinutes   \* gcTime is beyond the clock's range
  /\ clock' = clock + 1
  /\ UNCHANGED summaryQuery
  /\ EndBurst
  /\ UNCHANGED << filters, page, cache, observers, prefetchArmed, totalPagesSent, mounted,
                  gestures, pivotVars, hookVars >>

PivotIdle ==
  /\ currentData = NoData
  /\ now = EarlyDate
  /\ pivotData = PivotData(NoData, EarlyDate, 1)
  /\ prevRun = NoRun

Init == QueryInit /\ page = 1 /\ PivotIdle /\ HooksIdle

Next ==
  \/ SetSearchTerm
  \/ SetBrandFilter
  \/ SetQuantityMin
  \/ ClearAll
  \/ HandlePageChange
  \/ PrefetchTimerFires
  \/ FetchSucceeds
  \/ FetchFails
  \/ RetryFires
  \/ RetryClick
  \/ SummarySucceeds
  \/ SummaryFails
  \/ Unmount
  \/ Mount
  \/ Tick

Spec == Init /\ [][Next]_vars

\* The table at rest: the other components are looked at on their own.
TableIdle == QueryIdle /\ page = 1 /\ PivotIdle

DebounceInit ==
  /\ \E d \in 1..MaxDelay : debounce = DebounceMounted(d)
  /\ PerfIdle /\ VerifyIdle /\ UniqueIdle /\ HeaderIdle /\ TableIdle

DebounceSpec == DebounceInit /\ [][DebounceNext]_vars

\* Nothing has been called yet and the table has just mounted.
IdleInit == HooksIdle /\ TableIdle

PerfSpec == IdleInit /\ [][PerfNext]_vars

VerifySpec == IdleInit /\ [][VerifyNext]_vars

UniqueSpec == IdleInit /\ [][UniqueNext]_vars

HeaderInit ==
  /\ \E date \in HeaderDates : header = HeaderPending(date)
  /\ DebounceIdle /\ PerfIdle /\ VerifyIdle /\ UniqueIdle /\ TableIdle

HeaderSpec == HeaderInit /\ [][HeaderNext]_vars

----------------------------------------------------------------------------
(* Properties of the pivot *)

\* The week numbers currentWeek-4 .. currentWeek of the evaluation on display.
TargetWindow == (getWeekNumber(now) - 4) .. getWeekNumber(now)

RecordsOnDisplay == currentData.data

RowGroup(row) == <<row.mh_brick, row.site_id>>

RecordGroup(r) == <<BrickOrUnknown(r.mh_brick), r.site_id>>

CellOf(row, w) == row.weeks["Week " \o ToString(w)]

\* C1: a record whose computed week number is outside currentWeek-4 ..
\* currentWeek creates no row and changes no cell: the pivot is the pivot of
\* the records that are left when every such record is removed.
C1_WindowExclusion ==
  currentData.defined =>
    pivotData =
      PivotData(
        Loaded(SelectSeq(RecordsOnDisplay,
                 LAMBDA r : getWeekNumber(r.forecast_week) \in TargetWindow)),
        now, page)

\* C1 witness: a pivot with rows, computed from a list that also holds a
\* well-dated record of a week outside the window.
C1_Witness ==
  /\ currentData.defined
  /\ Len(pivotData.rows) >= 1
  /\ \E i \in 1..Len(RecordsOnDisplay) :
       /\ RecordsOnDisplay[i].forecast_week # InvalidDate
       /\ getWeekNumber(RecordsOnDisplay[i].forecast_week) \notin TargetWindow

\* C2: every row's weeks mapping has exactly the 5 keys 'Week w',
\* w = currentWeek-4 .. currentWeek, and they are the labels of the weeks
\* descriptor array, which lists them in ascending order up to the current week.
C2_Completeness ==
  \A i \in 1..Len(pivotData.rows) :
    /\ DOMAIN pivotData.rows[i].weeks = { "Week " \o ToString(w) : w \in TargetWindow }
    /\ Cardinality(DOMAIN pivotData.rows[i].weeks) = 5
    /\ Len(pivotData.weeks) = 5
    /\ \A k \in 1..5 :
         pivotData.weeks[k].week = "Week " \o ToString(getWeekNumber(now) - 5 + k)
    /\ DOMAIN pivotData.rows[i].weeks = { pivotData.weeks[k].week : k \in 1..5 }

\* C2 witness: a pivot with two rows whose window starts below week 1.
C2_Witness ==
  /\ Len(pivotData.rows) >= 2
  /\ getWeekNumber(now) - 4 < 1

\* C3, as claimed: a cell is 0 whenever the input holds no record of the
\* row's (mh_brick, site_id) group in that week of the window.
C3_ZeroFill ==
  \A i \in 1..Len(pivotData.rows) : \A w \in TargetWindow :
    (~\E j \in 1..Len(RecordsOnDisplay) :
        /\ RecordGroup(RecordsOnDisplay[j]) = RowGroup(pivotData.rows[i])
        /\ getWeekNumber(RecordsOnDisplay[j].forecast_week) = w)
    => CellOf(pivotData.rows[i], w) = 0

\* The positions of the records of group g dated in week w.
Hits(g, w) ==
  { j \in 1..Len(RecordsOnDisplay) :
      /\ RecordGroup(RecordsOnDisplay[j]) = g
      /\ getWeekNumber(RecordsOnDisplay[j].forecast_week) = w }

Last(S) == CHOOSE j \in S : \A k \in S : k <= j

\* C4, as claimed: when several records share a group and an in-window week,
\* the cell of that group and week holds the predicted_qty of the last of them.
C4_LastWins ==
  \A g \in { RecordGroup(r) : r \in ForecastRecord } : \A w \in TargetWindow :
    Cardinality(Hits(g, w)) >= 2 =>
      \E i \in 1..Len(pivotData.rows) :
        /\ RowGroup(pivotData.rows[i]) = g
        /\ CellOf(pivotData.rows[i], w) = RecordsOnDisplay[Last(Hits(g, w))].predicted_qty

\* C5, as claimed: with no records to pivot (an empty list, or no response
\* data at all) rows = [] and the weeks array has exactly 5 entries.
C5_EmptyAsClaimed ==
  (~currentData.defined \/ RecordsOnDisplay = <<>>) =>
    pivotData.rows = <<>> /\ Len(pivotData.weeks) = 5

\* C5, amended: an empty data list gives rows = [] and 5 week descriptors;
\* with no response data at all both rows and weeks are empty.
C5_Empty ==
  /\ (currentData.defined /\ RecordsOnDisplay = <<>>) =>
       pivotData.rows = <<>> /\ Len(pivotData.weeks) = 5
  /\ ~currentData.defined =>
       pivotData.rows = <<>> /\ pivotData.weeks = <<>>

\* C5 witness: the response with an empty data list is on display.
C5_Witness == currentData.defined /\ RecordsOnDisplay = <<>>

ErasePageId(row) == [ mh_brick |-> row.mh_brick, site_id |-> row.site_id, weeks |-> row.weeks ]

\* C6, as claimed: two evaluations on the same records and the same reference
\* date give identical output.
C6_SameOutputAsClaimed == prevRun.ran => prevRun.out = pivotData

\* C6, amended: two evaluations on the same records and the same reference
\* date give the same week descriptors and the same rows in the same order
\* up to _pageId, and each row's _pageId is `${page}-${mh_brick}-${site_id}`
\* for the page of its evaluation.
C6_SameOutputUpToPage ==
  prevRun.ran =>
    /\ prevRun.out.weeks = pivotData.weeks
    /\ Len(prevRun.out.rows) = Len(pivotData.rows)
    /\ \A i \in 1..Len(pivotData.rows) :
         /\ ErasePageId(prevRun.out.rows[i]) = ErasePageId(pivotData.rows[i])
         /\ pivotData.rows[i].pageId =
              ToString(page) \o "-" \o pivotData.rows[i].mh_brick
                \o "-" \o pivotData.rows[i].site_id
         /\ prevRun.out.rows[i].pageId =
              ToString(prevRun.page) \o "-" \o pivotData.rows[i].mh_brick
                \o "-" \o pivotData.rows[i].site_id

\* C6 witness: the memo ran again on the same records after a page change,
\* and the pivot has rows.
C6_Witness ==
  /\ prevRun.ran
  /\ prevRun.page # page
  /\ Len(pivotData.rows) >= 1

\* C7: a record with an unparsable forecast_week is left out and the pivot
\* of the other records is produced unchanged.
C7_MalformedSkipped ==
  currentData.defined =>
    pivotData =
      PivotData(
        Loaded(SelectSeq(RecordsOnDisplay, LAMBDA r : r.forecast_week # InvalidDate)),
        now, page)

\* C7 witness: a pivot with rows, computed from a list that holds a record
\* with an unparsable forecast_week.
C7_Witness ==
  /\ currentData.defined
  /\ Len(pivotData.rows) >= 1
  /\ \E i \in 1..Len(RecordsOnDisplay) : RecordsOnDisplay[i].forecast_week = InvalidDate


----------------------------------------------------------------------------
(* Properties of the query layer *)

\* The entry of key k holds data younger than staleTime.
Fresh(k) ==
  /\ k \in DOMAIN cache
  /\ cache[k].data.defined
  /\ (clock - cache[k].dataUpdatedAt) * TickMinutes < 15

\* The entries of a params object in the opposite order of insertion.
Reverse(seq) == [ i \in 1..Len(seq) |-> seq[Len(seq) + 1 - i] ]

\* The filter state on display, rebuilt field by field.
RebuiltFilters ==
  [ searchTerm |-> filters.searchTerm, zoneFilter |-> filters.zoneFilter,
    stateFilter |-> filters.stateFilter, cityFilter |-> filters.cityFilter,
    storeFilter |-> filters.storeFilter, formatFilter |-> filters.formatFilter,
    brandFilter |-> filters.brandFilter, dateStart |-> filters.dateStart,
    dateEnd |-> filters.dateEnd, qtyMin |-> filters.qtyMin, qtyMax |-> filters.qtyMax ]

\* C8: a filter state field-wise equal to the one on display, built on its
\* own (its params inserted in another order), hashes to the query key the
\* filtered observer holds, hence to the same cache entry; and while an entry
\* is fresh no step, a request made with an equal filter state included,
\* starts a fetch for it. The one step that is no request of a filter state,
\* the forced refetch() of the Retry button, is left out.
C8_EqualFiltersShareFreshEntry ==
  /\ [](listKey(Reverse(forecastParams(activeFilters(RebuiltFilters, InitialLimit, page))))
          = observers.filtered.key)
  /\ [][ RetryClick \/
          \A k \in DOMAIN cache :
            (Fresh(k) /\ cache[k].fetchStatus = "idle") => cache'[k].calls = cache[k].calls
      ]_vars

\* C8 witness: the search term "x" was requested, then brand "b" on top of
\* it, and the user is back on the first of the two filter states within
\* staleTime: its entry has made one network call.
C8_Witness ==
  LET fx  == [ NoFilters EXCEPT !.searchTerm = "x" ]
      fxb == [ NoFilters EXCEPT !.searchTerm = "x", !.brandFilter = "b" ]
      kx  == filteredKey(fx, InitialLimit, 1)
      kxb == filteredKey(fxb, InitialLimit, 1)
  IN  /\ filters = fx
      /\ page = 1
      /\ observers.filtered.key = kx
      /\ observers.filtered.enabled
      /\ kxb \in DOMAIN cache
      /\ cache[kxb].data.defined
      /\ Fresh(kx)
      /\ cache[kx].calls = 1
      /\ cache[kx].fetchStatus = "idle"

\* C9, as claimed: a fetch requested for a key whose fetch is in flight makes
\* no network call of its own: while a query is fetching, its number of
\* network calls changes only when its own retry fires, so two fetches of one
\* key share one call and the one result the entry takes.
C9_InFlightFetchIsShared ==
  [][ \A k \in DOMAIN cache :
        ( /\ cache[k].fetchStatus = "fetching"
          /\ ~(cache[k].phase = "wait" /\ cache'[k].phase = "request") )
        => /\ cache'[k].calls = cache[k].calls
           /\ (cache'[k].joined /\ ~cache[k].joined => cache'[k].fetchStatus = "fetching")
    ]_vars

\* C9 witness: the page query of page 2 joined the prefetch of page 2, and
\* the entry took its response after one network call.
C9_Witness ==
  /\ page = 2
  /\ observers.forecast.key = forecastKey(InitialLimit, 2)
  /\ observers.forecast.enabled
  /\ cache[observers.forecast.key].joined
  /\ cache[observers.forecast.key].calls = 1
  /\ cache[observers.forecast.key].data.defined
  /\ ResultData(cache, observers.forecast) = cache[observers.forecast.key].data

\* C10, as claimed: a fetch that failed with a server or network error is
\* retried until RetryCount retries are used up, and a fetch that failed with
\* a client error is not retried: its query is in the error state after the
\* first attempt.
C10_ClientErrorNotRetried ==
  \A k \in DOMAIN cache :
    /\ cache[k].failureReason \in { "server", "network" } =>
         /\ cache[k].failureCount <= RetryCount + 1
         /\ cache[k].status = "error" /\ cache[k].fetchStatus = "idle"
              => cache[k].failureCount = RetryCount + 1
    /\ cache[k].failureReason = "client" =>
         /\ cache[k].failureCount = 1
         /\ cache[k].status = "error"
         /\ cache[k].fetchStatus = "idle"

\* Query k gets a user in this step: the component mounts with its enabled
\* observer on k, or an observer of the mounted component moves onto k or is
\* enabled on it.
UsedInStep(k) ==
  \/ /\ ~mounted /\ mounted'
     /\ \E o \in { "filtered", "forecast" } :
          observers'[o].key = k /\ observers'[o].enabled
  \/ /\ mounted /\ mounted'
     /\ \E o \in { "filtered", "forecast" } :
          /\ observers'[o].key = k /\ observers'[o].enabled
          /\ (observers[o].key # k \/ ~observers[o].enabled)

\* C11, as claimed: a use of a key whose entry holds data makes no network
\* call while the entry is younger than staleTime; once it is older, the
\* use (a mount or a re-subscription) keeps the cached value on display and
\* leaves one background refetch of the entry running.
C11_StaleWhileRevalidate ==
  [][ \A k \in DOMAIN cache :
        (UsedInStep(k) /\ cache[k].data.defined) =>
          /\ cache'[k].data = cache[k].data
          /\ IF Fresh(k)
             THEN cache'[k].calls = cache[k].calls
             ELSE /\ cache'[k].fetchStatus = "fetching"
                  /\ cache'[k].calls <= cache[k].calls + 1
    ]_vars

\* The observer whose result ForecastDataTable displays.
Displayed == IF hasActiveFilters(filters) THEN observers.filtered ELSE observers.forecast

\* C12: whatever the order in which fetches resolve, every entry that holds
\* data holds the response to its own key's request, and once the key on
\* display has its response, the data displayed is that response, whatever
\* responses of keys left behind arrive afterwards.
C12_NoStaleOverwrite ==
  /\ \A k \in DOMAIN cache : cache[k].data.defined => cache[k].data.key = k
  /\ (mounted /\ cache[Displayed.key].data.defined) =>
        /\ ResultData(cache, Displayed).key = Displayed.key
        /\ ResultData(cache, Displayed) = cache[Displayed.key].data

\* C12 witness: the user left key A (page 2, unfiltered) while its fetch was
\* running and went to key B (brand "b"); B's response came at clock 0 and is
\* displayed, A's response came later, at clock 1, and sits under A.
C12_Witness ==
  LET A == forecastKey(InitialLimit, 2)
      B == filteredKey([ NoFilters EXCEPT !.brandFilter = "b" ], InitialLimit, 1)
  IN  /\ mounted
      /\ filters.brandFilter = "b" /\ filters.searchTerm = ""
      /\ Displayed.key = B
      /\ A \in DOMAIN cache
      /\ cache[A].isRetryCancelled /\ cache[A].calls = 1
      /\ cache[A].data.defined /\ cache[A].data.at = 1 /\ cache[A].data.key = A
      /\ cache[B].data.defined /\ cache[B].data.at = 0
      /\ ResultData(cache, Displayed) = cache[B].data

\* The kind of an error as its receiver can tell it: the class of the Error.
ErrorKindOf(e) == e.name

\* C13, as claimed: failures of different kinds (no response, 5xx, 4xx) never
\* surface as errors of the same kind.
C13_ErrorsClassified ==
  \A k1, k2 \in DOMAIN cache :
    ( /\ cache[k1].status = "error" /\ cache[k2].status = "error"
      /\ cache[k1].failureReason \in ErrorKinds
      /\ cache[k2].failureReason \in ErrorKinds
      /\ cache[k1].failureReason # cache[k2].failureReason )
    => ErrorKindOf(cache[k1].error) # ErrorKindOf(cache[k2].error)

\* C14, as claimed: whenever the query that supplies the displayed table has
\* ended in the error state, the component shows its retry control and the
\* query that control refetches is that failed query.
C14_RetryForDisplayedQuery ==
  ( /\ mounted
    /\ cache[Displayed.key].status = "error"
    /\ cache[Displayed.key].fetchStatus = "idle" )
  => /\ RetryShown
     /\ observers.forecast.key = Displayed.key

\* The request parameters that carry every filter value the user has set.
CarriedParams(f, lim, pg) ==
  LET Str(o, name, v) == SetIf(o, v # "", name, Quote(v))
      Num(o, name, v) == SetIf(o, v # Undefined, name, v)
  IN  Num(Num(Str(Str(Str(Str(Str(Str(Str(Str(Str(
        << Entry("limit", ToString(lim)), Entry("offset", ToString((pg - 1) * lim)) >>,
        "search_term", f.searchTerm), "zone", f.zoneFilter), "state", f.stateFilter),
        "city", f.cityFilter), "site_id", f.storeFilter), "format", f.formatFilter),
        "brand", f.brandFilter), "start_date", f.dateStart), "end_date", f.dateEnd),
        "min_predicted_qty", f.qtyMin), "max_predicted_qty", f.qtyMax)

C16_Debounced ==
  /\ Cardinality(burst.requested) <= 1
  /\ burst.requested \subseteq { filters.searchTerm }

\* Every request of apiClient ends, with a response or with a failure (at the
\* latest the timeout of 30000 ms), and every retryDelay timer fires.
LiveSpec ==
  /\ Init /\ [][Next]_vars
  /\ WF_vars(FetchSucceeds \/ FetchFails)
  /\ WF_vars(RetryFires)

\* Some query is fetching (in a request or waiting for its retry).
SomeFetching == \E k \in DOMAIN cache : cache[k].fetchStatus # "idle"

\* No query is fetching, and every query that made a call has settled.
AllSettled ==
  \A k \in DOMAIN cache :
    /\ cache[k].fetchStatus = "idle"
    /\ cache[k].calls > 0 => cache[k].status \in { "success", "error" }

\* A step in which the user does something or the prefetch timer fires.
ExternalStep == gestures' # gestures \/ (prefetchArmed /\ ~prefetchArmed')

C18_PaginationFlags ==
  LET d == cache[observers.forecast.key].data
  IN  ( /\ mounted
        /\ d.defined
        /\ d.total_pages = 0 )
      => /\ hasNextPage(cache, observers, page) = (page * InitialLimit < d.total_records)
         /\ hasPreviousPage(page) = (page > 1)

\* The data observers of the mounted component that are enabled.
EnabledObservers == { o \in { observers.filtered, observers.forecast } : o.enabled }

\* C19: while ForecastDataTable is mounted, the filtered query is enabled
\* exactly when hasActiveFilters, the unfiltered one exactly when not, so
\* exactly one of them is enabled, and the data, the loading flag and the
\* error selected for display are those of the enabled one.
C19_ExactlyOneEnabled ==
  mounted =>
    /\ observers.filtered.enabled = hasActiveFilters(filters)
    /\ observers.forecast.enabled = ~hasActiveFilters(filters)
    /\ observers.filtered.enabled # observers.forecast.enabled
    /\ \A o \in EnabledObservers :
         /\ selectedData(cache, observers, filters) = ResultData(cache, o)
         /\ isLoading(cache, observers, filters) = IsLoading(cache, o)
         /\ currentError(cache, observers, filters) = cache[o.key].error

\* The filtered query is the enabled one and is loading with nothing to show
\* while the unfiltered query, disabled, holds its data.
C19_Witness ==
  /\ mounted /\ hasActiveFilters(filters)
  /\ observers.filtered.enabled
  /\ IsLoading(cache, observers.filtered)
  /\ cache[observers.forecast.key].data.defined

\* C20: the params and the key of prefetchNextPage on page p are those of the
\* main query on page p + 1, and a move from page p to page p + 1 without
\* filters, made while the entry of that key is fresh, makes no network call.
C20_PrefetchServesNextPage ==
  /\ [](\A p \in 1..MaxPage :
          /\ nextPageParams("", InitialLimit, p) = brickParams("", InitialLimit, p + 1)
          /\ nextPageKey(InitialLimit, p) = forecastKey(InitialLimit, p + 1))
  /\ [][ ( /\ mounted /\ mounted'
           /\ ~hasActiveFilters(filters) /\ filters' = filters
           /\ page' = page + 1
           /\ Fresh(nextPageKey(InitialLimit, page)) )
         => /\ TotalCalls(cache') = TotalCalls(cache)
            /\ observers'.forecast.key = nextPageKey(InitialLimit, page)
            /\ ResultData(cache', observers'.forecast).key = observers'.forecast.key ]_vars

\* On page 1, before any gesture of the user, the prefetch of page 2 has
\* completed with one network call, and the page controls are shown.
C20_Witness ==
  /\ ControlsShown /\ gestures = 0 /\ page = 1 /\ ~hasActiveFilters(filters)
  /\ observers.forecast.key = forecastKey(InitialLimit, 1)
  /\ Fresh(nextPageKey(InitialLimit, 1))
  /\ cache[nextPageKey(InitialLimit, 1)].calls = 1

\* C21, as claimed: while the query that supplies the table on display is in
\* the success state, the component shows the table and not the error panel.
C21_TableShownOnSuccess ==
  ( /\ mounted
    /\ cache[Displayed.key].status = "success"
    /\ cache[Displayed.key].fetchStatus = "idle" )
  => ~hasError(cache, observers, summaryQuery)

\* C22, as claimed: with mh_brick = '' neither the request of
\* getForecastDataByBrick nor the request the unfiltered table query has made
\* carries an mh_brick parameter.
C22_NoBrickParamWhenEmpty ==
  /\ \A pg \in 1..MaxPage :
       ~HasKey(getForecastData(getForecastDataByBrick("",
                 << Entry("limit", ToString(InitialLimit)),
                    Entry("offset", ToString((pg - 1) * InitialLimit)) >>)), "mh_brick")
  /\ (mounted /\ cache[forecastKey(InitialLimit, page)].calls > 0)
       => ~HasKey(getForecastData(brickParams("", InitialLimit, page)), "mh_brick")

----------------------------------------------------------------------------
(* Properties of the hooks and of the service *)

\* C23: the debounced value changes only to the present input value, and
\* only when the input has had that value (and delay) for the full delay
\* and the component is mounted; hence never to a value superseded within
\* the delay; and no timer is pending once the component has unmounted.
C23_DebouncedFollowsSettledInput ==
  /\ [](~debounce.mounted => debounce.timers = {})
  /\ [](\A h \in debounce.timers : h.value = debounce.value)
  /\ [][ debounce'.debouncedValue # debounce.debouncedValue
           => /\ debounce'.debouncedValue = debounce.value
              /\ debounce.heldFor >= debounce.delay
              /\ debounce.mounted ]_vars

\* The input has changed to 'xy', has held it for the delay, and 'xy' has
\* become the debounced value.
C23_Witness ==
  /\ debounce.debouncedValue = "xy" /\ debounce.value = "xy"
  /\ debounce.heldFor >= debounce.delay

\* The last n entries of a sequence (all of them when it has fewer).
LastN(seq, n) ==
  IF Len(seq) <= n THEN seq ELSE SubSeq(seq, Len(seq) - n + 1, Len(seq))

\* C24: loadTimes holds at most KeepLoads entries, the lengths of the most
\* recent completed loading periods in the order of their completion;
\* loadCount is the number of completed loading periods; and a timing is in
\* progress exactly when the isLoading last seen was true.
C24_LoadTimesWindow ==
  /\ Len(perf.loadTimes) <= KeepLoads
  /\ perf.loadTimes = LastN(perf.completed, KeepLoads)
  /\ perf.loadCount = Len(perf.completed)
  /\ (perf.loadStartTime # NoStart) <=> perf.isLoading

\* More than KeepLoads loading periods have ended: the oldest has been
\* dropped from loadTimes.
C24_Witness ==
  /\ Len(perf.completed) > KeepLoads
  /\ Len(perf.loadTimes) = KeepLoads
  /\ perf.loadCount = Len(perf.completed)

\* The elements of a sequence.
Range(seq) == { seq[i] : i \in 1..Len(seq) }

\* C25, as claimed: in the result that verifyEndpoints returns every probed
\* endpoint is in exactly one of available and unavailable, and
\* backendConnected is true exactly when available is not empty.
C25_EveryEndpointClassified ==
  verify.returned =>
    /\ \A i \in 1..Len(endpoints) :
         (endpoints[i] \in Range(verify.available))
           # (endpoints[i] \in Range(verify.unavailable))
    /\ verify.backendConnected = (verify.available # << >>)

\* C26, as claimed: every entry is written with one shape only, that of
\* all the hooks of its key, so that what a hook is given from the cache
\* has the shape its own queryFn returns.
C26_OneShapePerKey ==
  \A h \in UniqueHooks :
    (unique.lastRead.hook = h.hook /\ unique.lastRead.column = h.column)
      => /\ unique.lastRead.shape = h.shape
         /\ unique.cache[uniqueValues(h.column)] = h.shape

----------------------------------------------------------------------------
(* Properties of the pivot: row grouping, and week labels against ranges *)

\* The (brick or 'Unknown', site_id) pairs of the records on display whose
\* week number is inside the window.
GroupsInWindow ==
  { RecordGroup(RecordsOnDisplay[j]) :
      j \in { k \in 1..Len(RecordsOnDisplay) :
                getWeekNumber(RecordsOnDisplay[k].forecast_week) \in TargetWindow } }

\* C27: pivot rows are grouped by the pair (mh_brick or 'Unknown', site_id):
\* every pair of an in-window record has a row of its own, so the rows are as
\* many as the distinct pairs and records of two distinct pairs never share
\* a row.
C27_RowsGroupedByPair ==
  currentData.defined =>
    /\ { RowGroup(pivotData.rows[i]) : i \in 1..Len(pivotData.rows) } = GroupsInWindow
    /\ Len(pivotData.rows) = Cardinality(GroupsInWindow)

\* The days of January-based number a .. a + 6 of year y, as the header
\* prints them: `${formatDate(weekStart)}-${formatDate(weekEnd)}`.
PrintedRange(y, a) ==
  formatDate(NormaliseDate(y, 1, a)) \o "-" \o formatDate(NormaliseDate(y, 1, a + 6))

\* C28: week labels and their date ranges agree: the date of a record counted
\* in column 'Week w' lies inside the seven days whose first and last day are
\* printed under that column, for every date of the year and every weekday
\* on which the year starts.
C28_DateInsidePrintedRange ==
  header.week # "" =>
    \E a \in 1..DaysIn(header.date.year) :
      /\ header.dateRange = PrintedRange(header.date.year, a)
      /\ a <= header.date.day + 1
      /\ header.date.day + 1 <= a + 6

----------------------------------------------------------------------------
(* Properties of the filter controls *)

\* The filter values of the request on display: those of activeFilters when
\* the filtered query is the one selected, none otherwise.
SentFilterValues(f) ==
  IF hasActiveFilters(f) THEN activeFilters(f, InitialLimit, 1) ELSE << >>

\* The key of the first page (offset 0) under the filter values f.
FirstPageKey(f) ==
  IF hasActiveFilters(f) THEN filteredKey(f, InitialLimit, 1) ELSE forecastKey(InitialLimit, 1)

\* C29: every user action that changes the filter values sent to the backend
\* sets page to 1, so the request issued after the change has offset 0.
C29_FilterChangeResetsPage ==
  [][ SentFilterValues(filters') # SentFilterValues(filters) =>
        /\ page' = 1
        /\ Displayed'.key = FirstPageKey(filters')
    ]_vars


============================================================================
